---------------------------- MODULE Spec2Model ----------------------------
(***************************************************************************)
(* ec2ssh: SSH to an EC2 instance with a per-(instance, address)           *)
(* known_hosts file bootstrapped from the instance's console output.      *)
(*                                                                         *)
(* Python strings are modelled as sequences of one-character strings, so   *)
(* that formatting, joining, searching, stripping and splitting are        *)
(* computed character by character as the code computes them.              *)
(***************************************************************************)
EXTENDS Integers, Sequences, FiniteSets, TLC

(***************************************************************************)
(* Bounds of the model.                                                    *)
(***************************************************************************)
\* describe_instances: at most this many reservations in a response
MaxReservations == 2
\* describe_instances: at most this many instances in one reservation
MaxInstances == 2
\* console output: at most this many lines (segments) in a payload
MaxSegments == 6
\* get_known_hosts_name: ids and addresses of at most this many characters
MaxNameLen == 3
\* sys.argv: at most this many arguments forwarded to ssh
MaxForwarded == 1

(***************************************************************************)
(* String constants of the program.                                        *)
(***************************************************************************)
NL == "\n"

\* src/ec2ssh.py:46  os.path.expanduser("~/.ec2ssh"), with HOME = "~" kept
\* symbolic: the directory is one fixed string for the whole process.
SSH_KEY_TMPDIR == <<"~", "/", ".", "e", "c", "2", "s", "s", "h">>

\* src/ec2ssh.py:65  "-----BEGIN SSH HOST KEY KEYS-----"
BEGIN_MARKER ==
  <<"-", "-", "-", "-", "-", "B", "E", "G", "I", "N", " ", "S", "S", "H",
    " ", "H", "O", "S", "T", " ", "K", "E", "Y", " ", "K", "E", "Y", "S",
    "-", "-", "-", "-", "-">>

\* src/ec2ssh.py:66  "-----END SSH HOST KEY KEYS-----"
END_MARKER ==
  <<"-", "-", "-", "-", "-", "E", "N", "D", " ", "S", "S", "H", " ", "H",
    "O", "S", "T", " ", "K", "E", "Y", " ", "K", "E", "Y", "S", "-", "-",
    "-", "-", "-">>

\* src/ec2ssh.py:77  the literal prefix of "pubkey-%s-%s"
PUBKEY_PREFIX == <<"p", "u", "b", "k", "e", "y", "-">>

\* src/ec2ssh.py:116  "UserKnownHostsFile "
USER_KNOWN_HOSTS_FILE ==
  <<"U", "s", "e", "r", "K", "n", "o", "w", "n", "H", "o", "s", "t", "s",
    "F", "i", "l", "e", " ">>

\* str.strip() with no argument strips the characters for which
\* str.isspace() holds.  In code-point order: U+0009 tab, U+000A newline,
\* U+000B vertical tab, U+000C form feed, U+000D carriage return,
\* U+001C..U+001F the four separators, U+0020 space, U+0085 next line,
\* U+00A0 no-break space, U+1680 ogham space mark.  The remaining ones
\* (U+2000..U+200A, U+2028, U+2029, U+202F, U+205F, U+3000) cannot be
\* written in a string of this module, so no string of the model holds them.
Whitespace ==
  {"\t", "\n", "", "\f", "\r", "", "", "", "",
   " ", "", " ", " "}

(***************************************************************************)
(* Python string operations.                                               *)
(***************************************************************************)
Min(S) == CHOOSE x \in S : \A y \in S : x <= y
Max(S) == CHOOSE x \in S : \A y \in S : x >= y

\* s[i:i+len(m)] == m
IsAt(s, i, m) ==
  /\ i >= 1
  /\ i + Len(m) - 1 <= Len(s)
  /\ \A j \in 1..Len(m) : s[i + j - 1] = m[j]

\* every index at which the literal m occurs in s
Occurrences(s, m) == {i \in 1..Len(s) : IsAt(s, i, m)}

\* str.strip()
Strip(s) ==
  LET keep == {i \in 1..Len(s) : s[i] \notin Whitespace}
  IN  IF keep = {} THEN <<>> ELSE SubSeq(s, Min(keep), Max(keep))

\* str.split("\n"): always at least one element
RECURSIVE Split(_)
Split(s) ==
  LET nls == {i \in 1..Len(s) : s[i] = NL}
  IN  IF nls = {} THEN <<s>>
      ELSE <<SubSeq(s, 1, Min(nls) - 1)>>
             \o Split(SubSeq(s, Min(nls) + 1, Len(s)))

\* os.path.join(a, b)
PathJoin(a, b) ==
  IF Len(b) > 0 /\ b[1] = "/" THEN b
  ELSE IF Len(a) = 0 \/ a[Len(a)] = "/" THEN a \o b
  ELSE a \o <<"/">> \o b

\* the concatenation of a sequence of strings
RECURSIVE Concat(_)
Concat(ss) == IF ss = <<>> THEN <<>> ELSE Head(ss) \o Concat(Tail(ss))


(***************************************************************************)
(* Values of the program.                                                  *)
(***************************************************************************)
\* Python's None for a local that holds a record
None == [None |-> TRUE]

\* no exception raised
NoError == [type |-> "", msg |-> "", arg |-> <<>>]

\* raise Exception(msg, arg)
Exception(msg, arg) == [type |-> "Exception", msg |-> msg, arg |-> arg]

\* the KeyError of a subscript on a missing dictionary key
KeyError(key) == [type |-> "KeyError", msg |-> key, arg |-> <<>>]

\* the IndexError of args[0] on an empty list
IndexError == [type |-> "IndexError", msg |-> "list index out of range",
               arg |-> <<>>]

\* a function's outcome: a returned value or a raised exception
Return(v) == [raised |-> FALSE, value |-> v, error |-> NoError]
Raise(e)  == [raised |-> TRUE, value |-> None, error |-> e]

(***************************************************************************)
(* get_instance_by_tag_name (src/ec2ssh.py:49-60)                          *)
(***************************************************************************)
\* lines 52-55: ret = []; for reservation in ...: ret += reservation["Instances"]
RECURSIVE CollectInstances(_)
CollectInstances(reservations) ==
  IF reservations = <<>> THEN <<>>
  ELSE Head(reservations).Instances \o CollectInstances(Tail(reservations))

\* a resolver that looks at the first reservation only
get_instance_by_tag_name_first_reservation(response, name) ==
  LET rs  == response.Reservations
      ret == IF rs = <<>> THEN <<>> ELSE Head(rs).Instances
  IN  IF ret = <<>> THEN Raise(Exception("No instances found", name))
      ELSE IF Len(ret) > 1
        THEN Raise(Exception("Multiple instances found", name))
      ELSE Return(ret[1])

\* response is what client.describe_instances(Filters=[tag:Name = name]) gave
get_instance_by_tag_name(response, name) ==
  LET ret == CollectInstances(response.Reservations)
  IN  IF ret = <<>> THEN Raise(Exception("No instances found", name))
      ELSE IF Len(ret) > 1
        THEN Raise(Exception("Multiple instances found", name))
      ELSE Return(ret[1])

(***************************************************************************)
(* get_ssh_host_keys_from_console_output (src/ec2ssh.py:63-73)             *)
(***************************************************************************)
NoMatch == [matched |-> FALSE, group1 |-> <<>>]

\* the same search with a non-greedy group, (.*?): the first END marker
\* after the first BEGIN marker closes the match
re_search_first_end(output) ==
  LET bs == Occurrences(output, BEGIN_MARKER)
  IN  IF bs = {} THEN NoMatch
      ELSE LET start == Min(bs) + Len(BEGIN_MARKER)
               es    == {e \in Occurrences(output, END_MARKER) : e >= start}
           IN  IF es = {} THEN NoMatch
               ELSE [matched |-> TRUE,
                     group1  |-> SubSeq(output, start, Min(es) - 1)]

\* re.search(BEGIN "(.*)" END, output, re.DOTALL): the leftmost match starts
\* at the first BEGIN marker that an END marker follows, and the greedy
\* group, which crosses newlines, runs to the last END marker
re_search(output) ==
  LET bs == Occurrences(output, BEGIN_MARKER)
  IN  IF bs = {} THEN NoMatch
      ELSE LET start == Min(bs) + Len(BEGIN_MARKER)
               es    == {e \in Occurrences(output, END_MARKER) : e >= start}
           IN  IF es = {} THEN NoMatch
               ELSE [matched |-> TRUE,
                     group1  |-> SubSeq(output, start, Max(es) - 1)]

\* an extraction that answers a missing marker block with no keys at all
get_ssh_host_keys_or_none(output, instance_id) ==
  LET mo == re_search(output)
  IN  IF mo.matched THEN Return(Split(Strip(mo.group1)))
      ELSE Return(<<>>)

\* output is response["Output"] of client.get_console_output(instance_id)
get_ssh_host_keys_from_console_output(output, instance_id) ==
  LET mo == re_search(output)
  IN  IF mo.matched THEN Return(Split(Strip(mo.group1)))
      ELSE Raise(Exception("No SSH HOST KEY KEYS found", instance_id))

(***************************************************************************)
(* get_known_hosts_name (src/ec2ssh.py:76-78)                              *)
(***************************************************************************)
get_known_hosts_name(instance_id, ssh_hostname) ==
  LET file_name == PUBKEY_PREFIX \o instance_id \o <<"-">> \o ssh_hostname
  IN  PathJoin(SSH_KEY_TMPDIR, file_name)

(***************************************************************************)
(* write_known_hosts_file (src/ec2ssh.py:81-86)                            *)
(***************************************************************************)
\* lines 82-84: data += ssh_hostname + " " + key + "\n" for key in keys
RECURSIVE known_hosts_data(_, _)
known_hosts_data(keys, ssh_hostname) ==
  IF keys = <<>> THEN <<>>
  ELSE (ssh_hostname \o <<" ">> \o Head(keys) \o <<NL>>)
         \o known_hosts_data(Tail(keys), ssh_hostname)

\* a write left in the file object's buffer and never flushed
WriteAt0_unflushed(old, data) == old

\* a write through a file opened at offset 0 over what the file holds
WriteAt0(old, data) ==
  IF Len(data) >= Len(old) THEN data
  ELSE data \o SubSeq(old, Len(data) + 1, Len(old))

\* os.path.exists(file_name) answered from an empty listing: never a hit
path_exists_never(files, file_name) == FALSE

\* os.path.exists(file_name) (src/ec2ssh.py:109)
path_exists(files, file_name) == file_name \in DOMAIN files

\* an exit status that only tells success from failure
sys_exit_flag(rc) == IF rc = 0 THEN 0 ELSE 1

\* sys.exit(rc) (src/ec2ssh.py:125): the process's 8-bit exit status
sys_exit(rc) == rc % 256

(***************************************************************************)
(* Inputs: what the operator, the control plane and the ssh child supply.  *)
(***************************************************************************)
\* every sequence over S of at most n elements
SeqsUpTo(S, n) == UNION {[1..k -> S] : k \in 0..n}

\* instance names given on the command line
Names == {<<"w", "e", "b">>, <<"d", "b">>}

\* arguments forwarded to ssh
ForwardedArgs == {<<"-", "v">>}

\* sys.argv[1:]: nothing, or a name and the arguments to forward
Argvs ==
  {<<>>} \cup {<<n>> \o f : n \in Names,
                            f \in SeqsUpTo(ForwardedArgs, MaxForwarded)}

\* instance ids and addresses; both may hold the "-" of the file name
ID_1   == <<"i", "-", "1">>
ID_1_A == <<"i", "-", "1", "-", "a">>
HOST_A_B == <<"a", "-", "b">>
HOST_B   == <<"b">>

Instance(id, host) == [InstanceId |-> id, PublicIpAddress |-> host]

\* an instance record without a public address
InstanceNoAddress(id) == [InstanceId |-> id]

\* the instances the control plane may report to a run
InstancePool ==
  {Instance(ID_1, HOST_A_B), Instance(ID_1_A, HOST_B),
   Instance(ID_1, HOST_B), InstanceNoAddress(ID_1)}

Reservation(instances) == [Instances |-> instances]
Response(reservations) == [Reservations |-> reservations]

\* describe_instances responses given to a run: no instance, one instance,
\* two instances in one reservation, two instances in two reservations
Responses ==
  {Response(<<>>), Response(<<Reservation(<<>>)>>)}
    \cup {Response(<<Reservation(<<x>>)>>) : x \in InstancePool}
    \cup {Response(<<Reservation(<<x, y>>)>>) :
            x \in {Instance(ID_1, HOST_A_B)}, y \in InstancePool}
    \cup {Response(<<Reservation(<<x>>), Reservation(<<y>>)>>) :
            x \in {Instance(ID_1, HOST_A_B)}, y \in InstancePool}

\* host key lines
KEY_1 == <<"r", "s", "a", " ", "A">>
KEY_2 == <<"d", "s", "a", " ", "B">>

\* the lines a console output is made of, each with its newline
BEGIN_LINE == BEGIN_MARKER \o <<NL>>
END_LINE   == END_MARKER \o <<NL>>
KEY_1_LINE == KEY_1 \o <<NL>>
KEY_2_LINE == KEY_2 \o <<NL>>
BLANK_LINE == <<NL>>
Segments == {BEGIN_LINE, END_LINE, KEY_1_LINE, KEY_2_LINE, BLANK_LINE}

\* console outputs given to a run: no marker block yet, an END marker with
\* no BEGIN before it, a block with one key, a block with two keys
OUTPUT_NO_MARKERS == Concat(<<KEY_1_LINE>>)
OUTPUT_END_ONLY   == Concat(<<END_LINE, BEGIN_LINE>>)
OUTPUT_ONE_KEY    == Concat(<<BEGIN_LINE, KEY_1_LINE, END_LINE>>)
OUTPUT_TWO_KEYS   == Concat(<<BEGIN_LINE, KEY_2_LINE, KEY_1_LINE, END_LINE>>)
\* a block whose only key line has a vertical tab before the key and a
\* no-break space after it: strip() removes both
OUTPUT_PADDED_KEY ==
  Concat(<<BEGIN_LINE, <<"">> \o KEY_1 \o <<" ", NL>>, END_LINE>>)
Outputs ==
  {OUTPUT_NO_MARKERS, OUTPUT_END_ONLY, OUTPUT_ONE_KEY, OUTPUT_TWO_KEYS,
   OUTPUT_PADDED_KEY}

\* exit statuses of the ssh child: success, a remote command's failure,
\* ssh's own connection-level failure
ChildStatuses == {0, 1, 255}

\* the invocations of the program
Procs == {"p1", "p2"}

(***************************************************************************)
(* State.                                                                  *)
(***************************************************************************)
VARIABLES
  fs,         \* the files under SSH_KEY_TMPDIR: path -> contents
  dir_exists, \* whether SSH_KEY_TMPDIR exists
  run,        \* per invocation: position in main() and main's locals
  child,      \* per invocation: its ssh child process
  extracted,  \* history: the (id, address) pairs whose keys a run extracted
  openers,    \* history: per path, the invocations that opened it to write
  arg,        \* input of the function under check (function specifications)
  res         \* its result

vars == <<fs, dir_exists, run, child, extracted, openers, arg, res>>

\* what a run remembers of the run before it
NoPrev == [ran |-> FALSE, instance_id |-> <<>>, ssh_hostname |-> <<>>,
           file_name |-> <<>>, fetched |-> FALSE, outcome |-> ""]

\* main() not started: every local unset (rc and exit_status -1: none yet)
IdleRun ==
  [pc |-> "idle", instance_name |-> <<>>, ssh_forwarded_args |-> <<>>,
   response |-> None, instance |-> None, ssh_hostname |-> <<>>,
   instance_id |-> <<>>, file_name |-> <<>>, fetched |-> FALSE,
   output |-> <<>>, keys |-> <<>>, wrote |-> FALSE, args |-> <<>>,
   rc |-> -1, exit_status |-> -1, error |-> NoError, trace |-> <<>>,
   prev |-> NoPrev]

NoChild == [state |-> "none", argv |-> <<>>, status |-> -1]

\* how a finished run ended, for the run that follows it
Outcome(r) ==
  IF r.wrote THEN "created"
  ELSE IF r.error.msg = "No SSH HOST KEY KEYS found" THEN "nokeys"
  ELSE IF r.error # NoError THEN "unresolved"
  ELSE "cached"

Summary(r) ==
  IF r.pc # "done" THEN NoPrev
  ELSE [ran |-> TRUE, instance_id |-> r.instance_id,
        ssh_hostname |-> r.ssh_hostname, file_name |-> r.file_name,
        fetched |-> r.fetched, outcome |-> Outcome(r)]

\* trace(message) (src/ec2ssh.py:89-91): one line on stderr
Trace(r, message) == [r EXCEPT !.trace = Append(@, message)]

\* an exception reported but not propagated: main() goes on to the cache check
Raised_swallowed(r, e) == [r EXCEPT !.pc = "check", !.error = e]

\* an uncaught exception ends main(): traceback, exit status 1
Raised(r, e) == [r EXCEPT !.pc = "done", !.error = e, !.exit_status = 1]

(***************************************************************************)
(* main() (src/ec2ssh.py:94-125), one action per step between two calls    *)
(* to the outside: the control plane, the file system, the ssh child.      *)
(***************************************************************************)
Init ==
  /\ fs = <<>>
  /\ dir_exists = FALSE
  /\ run = [p \in Procs |-> IdleRun]
  /\ child = [p \in Procs |-> NoChild]
  /\ extracted = {}
  /\ openers = <<>>
  /\ arg = None
  /\ res = None

\* lines 95-99: read the command line, create the directory
Begin(p, argvs) ==
  /\ run[p].pc \in {"idle", "done"}
  /\ \E argv \in argvs :
       LET fresh == [IdleRun EXCEPT !.prev = Summary(run[p])]
       IN  IF argv = <<>>
           THEN /\ run' = [run EXCEPT ![p] = Raised(fresh, IndexError)]
                /\ UNCHANGED dir_exists
           ELSE /\ run' = [run EXCEPT ![p] =
                     [fresh EXCEPT !.pc = "resolve",
                                   !.instance_name = Head(argv),
                                   !.ssh_forwarded_args = Tail(argv)]]
                /\ dir_exists' = TRUE
  /\ child' = [child EXCEPT ![p] = NoChild]
  /\ UNCHANGED <<fs, extracted, openers, arg, res>>

\* lines 101-108: resolve the name, read the address and the id, name the file
Resolve(p, responses) ==
  /\ run[p].pc = "resolve"
  /\ \E response \in responses :
       LET r == [run[p] EXCEPT !.response = response]
           o == get_instance_by_tag_name(response, r.instance_name)
       IN  run' = [run EXCEPT ![p] =
             IF o.raised THEN Raised(r, o.error)
             ELSE IF "PublicIpAddress" \notin DOMAIN o.value
               THEN Raised([r EXCEPT !.instance = o.value],
                           KeyError("PublicIpAddress"))
             ELSE [r EXCEPT
                     !.pc = "check",
                     !.instance = o.value,
                     !.ssh_hostname = o.value.PublicIpAddress,
                     !.instance_id = o.value.InstanceId,
                     !.file_name = get_known_hosts_name(
                         o.value.InstanceId, o.value.PublicIpAddress)]]
  /\ UNCHANGED <<fs, dir_exists, child, extracted, openers, arg, res>>

\* lines 109, 113-114: the cache check
CheckCache(p) ==
  /\ run[p].pc = "check"
  /\ run' = [run EXCEPT ![p] =
       IF path_exists(fs, run[p].file_name)
       THEN [Trace(run[p], "Using cached file") EXCEPT !.pc = "launch"]
       ELSE [run[p] EXCEPT !.pc = "fetch"]]
  /\ UNCHANGED <<fs, dir_exists, child, extracted, openers, arg, res>>

\* line 110: fetch the console output and extract the keys
Fetch(p, outputs) ==
  /\ run[p].pc = "fetch"
  /\ \E output \in outputs :
       LET r == [run[p] EXCEPT !.fetched = TRUE, !.output = output]
           o == get_ssh_host_keys_from_console_output(output, r.instance_id)
       IN  IF o.raised
           THEN /\ run' = [run EXCEPT ![p] = Raised(r, o.error)]
                /\ UNCHANGED extracted
           ELSE /\ run' = [run EXCEPT ![p] =
                     [r EXCEPT !.pc = "write", !.keys = o.value]]
                /\ extracted' =
                     extracted \cup {<<r.instance_id, r.ssh_hostname>>}
  /\ UNCHANGED <<fs, dir_exists, child, openers, arg, res>>

\* the file system with path holding contents
Store(files, path, contents) ==
  [f \in DOMAIN files \cup {path} |->
     IF f = path THEN contents ELSE files[f]]

\* the invocations that have opened path for writing, with p added
Opened(path, p) ==
  Store(openers, path,
        IF path \in DOMAIN openers THEN openers[path] \cup {p} ELSE {p})

\* lines 111-112: write_known_hosts_file as one step (no other invocation
\* runs between its open and its write)
WriteFile(p) ==
  /\ run[p].pc = "write"
  /\ fs' = Store(fs, run[p].file_name,
                 WriteAt0(<<>>, known_hosts_data(run[p].keys,
                                                 run[p].ssh_hostname)))
  /\ openers' = Opened(run[p].file_name, p)
  /\ run' = [run EXCEPT ![p] =
       [Trace(run[p], "Created new file") EXCEPT !.pc = "launch",
                                                  !.wrote = TRUE]]
  /\ UNCHANGED <<dir_exists, child, extracted, arg, res>>

\* line 86, open(file_name, "w"): the file is created or truncated
OpenFile(p) ==
  /\ run[p].pc = "write"
  /\ fs' = Store(fs, run[p].file_name, <<>>)
  /\ openers' = Opened(run[p].file_name, p)
  /\ run' = [run EXCEPT ![p].pc = "writing"]
  /\ UNCHANGED <<dir_exists, child, extracted, arg, res>>

\* line 86, .write(data) and the close that flushes it; line 112
WriteData(p) ==
  /\ run[p].pc = "writing"
  /\ fs' = Store(fs, run[p].file_name,
                 WriteAt0(fs[run[p].file_name],
                          known_hosts_data(run[p].keys,
                                           run[p].ssh_hostname)))
  /\ run' = [run EXCEPT ![p] =
       [Trace(run[p], "Created new file") EXCEPT !.pc = "launch",
                                                  !.wrote = TRUE]]
  /\ UNCHANGED <<dir_exists, child, extracted, openers, arg, res>>

\* lines 116-122: build the ssh command line and start the child
Launch(p) ==
  /\ run[p].pc = "launch"
  /\ LET args == <<<<"s", "s", "h">>, <<"-", "o">>,
                   USER_KNOWN_HOSTS_FILE \o run[p].file_name,
                   run[p].ssh_hostname>> \o run[p].ssh_forwarded_args
     IN  /\ run' = [run EXCEPT ![p] =
              [Trace(run[p], "Running") EXCEPT !.pc = "wait",
                                               !.args = args]]
         /\ child' = [child EXCEPT ![p] =
              [state |-> "running", argv |-> args, status |-> -1]]
  /\ UNCHANGED <<fs, dir_exists, extracted, openers, arg, res>>

\* the ssh child ends with an exit status of its own choosing
ChildExit(p, statuses) ==
  /\ child[p].state = "running"
  /\ \E status \in statuses :
       child' = [child EXCEPT ![p].state = "exited", ![p].status = status]
  /\ UNCHANGED <<fs, dir_exists, run, extracted, openers, arg, res>>

\* lines 123-124: rc = p.wait() returns once the child has ended
Wait(p) ==
  /\ run[p].pc = "wait"
  /\ child[p].state = "exited"
  /\ run' = [run EXCEPT ![p] =
       [Trace(run[p], "Exit status") EXCEPT !.pc = "exit",
                                            !.rc = child[p].status]]
  /\ UNCHANGED <<fs, dir_exists, child, extracted, openers, arg, res>>

\* line 125: sys.exit(rc)
Exit(p) ==
  /\ run[p].pc = "exit"
  /\ run' = [run EXCEPT ![p].pc = "done",
                        ![p].exit_status = sys_exit(run[p].rc)]
  /\ UNCHANGED <<fs, dir_exists, child, extracted, openers, arg, res>>

(***************************************************************************)
(* Runs executed one after another: a single invocation at a time.         *)
(***************************************************************************)
Next ==
  \/ Begin("p1", Argvs)
  \/ Resolve("p1", Responses)
  \/ CheckCache("p1")
  \/ Fetch("p1", Outputs)
  \/ WriteFile("p1")
  \/ Launch("p1")
  \/ ChildExit("p1", ChildStatuses)
  \/ Wait("p1")
  \/ Exit("p1")

Spec == Init /\ [][Next]_vars

(***************************************************************************)
(* Invocations running concurrently, against one instance: the existence   *)
(* check, the open that truncates and the write are separate steps.        *)
(***************************************************************************)
ConcArgvs     == {<<<<"w", "e", "b">>>>}
ConcResponses == {Response(<<Reservation(<<Instance(ID_1, HOST_A_B)>>)>>)}
ConcOutputs   == {OUTPUT_ONE_KEY, OUTPUT_TWO_KEYS}
ConcStatuses  == {0}

ConcNext ==
  \E p \in Procs :
    \/ Begin(p, ConcArgvs)
    \/ Resolve(p, ConcResponses)
    \/ CheckCache(p)
    \/ Fetch(p, ConcOutputs)
    \/ OpenFile(p)
    \/ WriteData(p)
    \/ Launch(p)
    \/ ChildExit(p, ConcStatuses)
    \/ Wait(p)
    \/ Exit(p)

ConcSpec == Init /\ [][ConcNext]_vars

(***************************************************************************)
(* get_instance_by_tag_name applied to every response within the bounds.   *)
(***************************************************************************)
ResolvePool ==
  {Instance(ID_1, HOST_A_B), Instance(ID_1_A, HOST_B),
   InstanceNoAddress(ID_1)}

AllResponses ==
  {Response(rs) :
     rs \in SeqsUpTo({Reservation(is) :
                        is \in SeqsUpTo(ResolvePool, MaxInstances)},
                     MaxReservations)}

InitResolve ==
  /\ fs = <<>>
  /\ dir_exists = FALSE
  /\ run = [p \in Procs |-> IdleRun]
  /\ child = [p \in Procs |-> NoChild]
  /\ extracted = {}
  /\ openers = <<>>
  /\ arg \in {[response |-> r, name |-> n] : r \in AllResponses, n \in Names}
  /\ res = None

ApplyResolve ==
  /\ res = None
  /\ res' = get_instance_by_tag_name(arg.response, arg.name)
  /\ UNCHANGED <<fs, dir_exists, run, child, extracted, openers, arg>>

ResolveSpec == InitResolve /\ [][ApplyResolve]_vars

(***************************************************************************)
(* get_known_hosts_name applied to every two (id, address) pairs within    *)
(* the bounds.                                                             *)
(***************************************************************************)
NameAlphabet == {"a", "-"}
\* ids and host names: not empty, no "-" at either end
NameStrings  ==
  {n \in SeqsUpTo(NameAlphabet, MaxNameLen) :
     Len(n) > 0 /\ n[1] # "-" /\ n[Len(n)] # "-"}

InitName ==
  /\ fs = <<>>
  /\ dir_exists = FALSE
  /\ run = [p \in Procs |-> IdleRun]
  /\ child = [p \in Procs |-> NoChild]
  /\ extracted = {}
  /\ openers = <<>>
  /\ arg \in [id1 : NameStrings, host1 : NameStrings,
              id2 : NameStrings, host2 : NameStrings]
  /\ res = None

ApplyName ==
  /\ res = None
  /\ res' = [path1 |-> get_known_hosts_name(arg.id1, arg.host1),
             path2 |-> get_known_hosts_name(arg.id2, arg.host2)]
  /\ UNCHANGED <<fs, dir_exists, run, child, extracted, openers, arg>>

NameSpec == InitName /\ [][ApplyName]_vars

(***************************************************************************)
(* Key extraction and the known_hosts data (main, lines 110-111) applied   *)
(* to every console output of at most MaxSegments lines.                   *)
(***************************************************************************)
InitKeys ==
  /\ fs = <<>>
  /\ dir_exists = FALSE
  /\ run = [p \in Procs |-> IdleRun]
  /\ child = [p \in Procs |-> NoChild]
  /\ extracted = {}
  /\ openers = <<>>
  /\ arg \in {[segments |-> sg, output |-> Concat(sg),
               instance_id |-> ID_1, ssh_hostname |-> HOST_A_B] :
                sg \in SeqsUpTo(Segments, MaxSegments)}
  /\ res = None

ApplyKeys ==
  /\ res = None
  /\ LET o == get_ssh_host_keys_from_console_output(arg.output,
                                                    arg.instance_id)
     IN  res' = [keys |-> o,
                 written |-> ~o.raised,
                 data |-> IF o.raised THEN <<>>
                          ELSE WriteAt0(<<>>,
                                 known_hosts_data(o.value, arg.ssh_hostname))]
  /\ UNCHANGED <<fs, dir_exists, run, child, extracted, openers, arg>>

KeysSpec == InitKeys /\ [][ApplyKeys]_vars

(***************************************************************************)
(* Properties of resolution.                                               *)
(***************************************************************************)
Range(seq) == {seq[i] : i \in DOMAIN seq}

\* the number of instances in a response, summed over its reservations
RECURSIVE TotalMatches(_)
TotalMatches(reservations) ==
  IF reservations = <<>> THEN 0
  ELSE Len(Head(reservations).Instances) + TotalMatches(Tail(reservations))

\* the instances that occur anywhere in a response
MatchedInstances(response) ==
  UNION {Range(response.Reservations[k].Instances) :
           k \in DOMAIN response.Reservations}

\* C1: resolution has exactly three outcomes, decided by the number of
\* instances in the response summed over all reservations: exactly one ->
\* that instance's record is returned; none -> the "No instances found"
\* error; two or more -> the "Multiple instances found" error, and no
\* instance is returned.
C1_ResolveOutcomes ==
  res # None =>
    LET n == TotalMatches(arg.response.Reservations)
    IN  /\ n = 1 =>
             /\ ~res.raised
             /\ MatchedInstances(arg.response) = {res.value}
        /\ n = 0 =>
             /\ res.raised
             /\ res.value = None
             /\ res.error = Exception("No instances found", arg.name)
        /\ n >= 2 =>
             /\ res.raised
             /\ res.value = None
             /\ res.error = Exception("Multiple instances found", arg.name)

\* C1 witness: a single instance, reported in the second of two
\* reservations, has been returned
C1_Witness ==
  /\ res # None
  /\ Len(arg.response.Reservations) = 2
  /\ arg.response.Reservations[1].Instances = <<>>
  /\ TotalMatches(arg.response.Reservations) = 1
  /\ res = Return(Instance(ID_1, HOST_A_B))

(***************************************************************************)
(* Properties of the file name.                                            *)
(***************************************************************************)
\* C2: two different (instance id, address) pairs have two different
\* trust-store paths, and one pair always has the same path, also when ids
\* and addresses hold the "-" that separates them in the file name.
C2_DistinctPaths ==
  res # None =>
    (res.path1 = res.path2
       <=> (arg.id1 = arg.id2 /\ arg.host1 = arg.host2))

(***************************************************************************)
(* Properties of key extraction and of the data written.                   *)
(***************************************************************************)
\* a line without its newline
LineText(segment) == SubSeq(segment, 1, Len(segment) - 1)

LineTexts(segs) == [i \in DOMAIN segs |-> LineText(segs[i])]

\* whether a BEGIN marker line is followed, anywhere later, by an END line
HasBlock(segs) ==
  \E b, e \in DOMAIN segs :
    b < e /\ segs[b] = BEGIN_LINE /\ segs[e] = END_LINE

\* the lines after the first BEGIN marker line and before the last END line
LinesBetween(segs) ==
  LET b == Min({i \in DOMAIN segs : segs[i] = BEGIN_LINE})
      e == Max({i \in DOMAIN segs : segs[i] = END_LINE})
  IN  SubSeq(segs, b + 1, e - 1)

IsBlank(segment) == segment = BLANK_LINE
NotBlank(segment) == segment # BLANK_LINE

\* lines with the blank lines at both ends dropped
TrimBlank(segs) ==
  LET keep == {i \in DOMAIN segs : NotBlank(segs[i])}
  IN  IF keep = {} THEN <<>> ELSE SubSeq(segs, Min(keep), Max(keep))

\* one "<address> <key>" line per given line
RECURSIVE AddressLines(_, _)
AddressLines(texts, address) ==
  IF texts = <<>> THEN <<>>
  ELSE address \o <<" ">> \o Head(texts) \o <<NL>>
         \o AddressLines(Tail(texts), address)

\* C4: on a cache miss with a marker block present, the file written holds
\* exactly one line "<address> <key>" for each non-empty line between the
\* markers, in the payload's order, and no other line: blank lines in the
\* block, and an empty block, give no line in the file.
C4_RoundTrip ==
  (res # None /\ HasBlock(arg.segments)) =>
    /\ res.written
    /\ res.data =
         AddressLines(LineTexts(SelectSeq(LinesBetween(arg.segments),
                                          NotBlank)),
                      arg.ssh_hostname)

\* C10: the extracted content runs from just after the first BEGIN marker
\* to just before the last END marker: every line between them, the END and
\* BEGIN marker lines of inner blocks and the text between blocks included,
\* is returned as a key line, in order (the blank lines at both ends of the
\* content are stripped, a blank line inside is an empty key, and a content
\* of blank lines only is one empty key); with a single block these are
\* the lines of that block.  Without a BEGIN marker followed by an END
\* marker nothing is extracted.
C10_GreedyExtraction ==
  res # None =>
    IF HasBlock(arg.segments)
    THEN /\ ~res.keys.raised
         /\ LET lines == LineTexts(TrimBlank(LinesBetween(arg.segments)))
            IN  res.keys.value = IF lines = <<>> THEN <<<<>>>> ELSE lines
    ELSE res.keys.raised

\* C10 witness: of two blocks, the first END marker line and the second
\* BEGIN marker line have been returned as keys
C10_Witness ==
  /\ res # None
  /\ arg.segments =
       <<BEGIN_LINE, KEY_1_LINE, END_LINE, BEGIN_LINE, KEY_2_LINE>>
            \o <<END_LINE>>
  /\ res.keys.value = <<KEY_1, END_MARKER, BEGIN_MARKER, KEY_2>>

(***************************************************************************)
(* Properties of runs executed one after another.                          *)
(***************************************************************************)
\* main() is past line 108: the instance is resolved and the file named
Resolved(r) ==
  r.pc \in {"check", "fetch", "write", "writing", "launch", "wait", "exit",
            "done"}
    /\ r.file_name # <<>>

\* the run is for the (id, address) pair of the run before it
SamePairAsPrev(r) ==
  /\ r.prev.ran
  /\ r.instance_id = r.prev.instance_id
  /\ r.ssh_hostname = r.prev.ssh_hostname

Traced(r, message) == \E i \in DOMAIN r.trace : r.trace[i] = message

\* C3: of two consecutive runs for one (instance id, address) pair whose
\* first run bootstrapped the trust record, only the first fetches the
\* console output; the second finds the file, fetches nothing, writes
\* nothing and uses the same path.
C3_BootstrapOnce ==
  \A p \in Procs :
    LET r == run[p]
    IN  (Resolved(r) /\ SamePairAsPrev(r) /\ r.prev.outcome = "created") =>
          /\ r.prev.fetched
          /\ ~r.fetched
          /\ ~r.wrote
          /\ r.pc \notin {"fetch", "write", "writing"}
          /\ r.file_name = r.prev.file_name
          /\ r.pc # "check" => Traced(r, "Using cached file")

\* C3 witness: the second of two such runs has gone through ssh and ended
C3_Witness ==
  \E p \in Procs :
    /\ run[p].pc = "done"
    /\ run[p].error = NoError
    /\ SamePairAsPrev(run[p])
    /\ run[p].prev.outcome = "created"
    /\ child[p].state = "exited"

\* whether a console output holds a BEGIN marker with an END marker after it
HasMarkerBlock(output) ==
  \E b \in Occurrences(output, BEGIN_MARKER) :
    \E e \in Occurrences(output, END_MARKER) : e >= b + Len(BEGIN_MARKER)

\* C5: a run that fetched a console output without a marker block has
\* failed with the "No SSH HOST KEY KEYS found" error, has created no
\* trust-store file for its pair and has started no ssh; the next run for
\* the same pair misses the cache again and fetches again.
C5_MissingMarker ==
  \A p \in Procs :
    LET r == run[p]
    IN  /\ (r.fetched /\ ~HasMarkerBlock(r.output)) =>
             /\ r.pc = "done"
             /\ r.error =
                  Exception("No SSH HOST KEY KEYS found", r.instance_id)
             /\ r.exit_status = 1
             /\ ~r.wrote
             /\ ~path_exists(fs, r.file_name)
             /\ child[p].state = "none"
        /\ (Resolved(r) /\ SamePairAsPrev(r) /\ r.prev.outcome = "nokeys"
              /\ r.pc # "check") =>
             /\ ~Traced(r, "Using cached file")
             /\ r.pc = "fetch" \/ r.fetched

\* C5 witness: a run has failed for want of a marker block right after a
\* run for the same pair that failed the same way
C5_Witness ==
  \E p \in Procs :
    /\ run[p].pc = "done"
    /\ run[p].fetched
    /\ ~HasMarkerBlock(run[p].output)
    /\ run[p].error.msg = "No SSH HOST KEY KEYS found"
    /\ SamePairAsPrev(run[p])
    /\ run[p].prev.outcome = "nokeys"

\* C6: a run that started ssh ends only after the child has ended, and its
\* exit status is the exit status of the child, unchanged.
C6_ExitStatus ==
  \A p \in Procs :
    /\ (child[p].state # "none" /\ run[p].pc \in {"exit", "done"}) =>
         child[p].state = "exited"
    /\ (child[p].state # "none" /\ run[p].pc = "done") =>
         run[p].exit_status = child[p].status
    /\ run[p].pc # "done" => run[p].exit_status = -1

\* C6 witness: a run whose ssh child ended with status 255 has exited
C6_Witness ==
  \E p \in Procs :
    /\ run[p].pc = "done"
    /\ child[p].state = "exited"
    /\ child[p].status = 255
    /\ run[p].exit_status = 255

\* whether resolution fails on a response: no instance, more than one, or
\* one that has no reachable address
ResolutionFails(response) ==
  \/ TotalMatches(response.Reservations) # 1
  \/ \E x \in MatchedInstances(response) : "PublicIpAddress" \notin DOMAIN x

\* C7: a run whose resolution fails (no matching instance, more than one,
\* or an instance without an address) has ended in a failure, with no
\* console output fetched, no trust-store file written and no ssh started.
C7_FailBeforeLaterStages ==
  \A p \in Procs :
    LET r == run[p]
    IN  (r.response # None /\ ResolutionFails(r.response)) =>
          /\ r.pc = "done"
          /\ r.error # NoError
          /\ r.exit_status = 1
          /\ ~r.fetched
          /\ ~r.wrote
          /\ r.trace = <<>>
          /\ child[p].state = "none"

\* C7 witness: a run has failed on an instance without an address, after
\* creating the directory
C7_Witness ==
  \E p \in Procs :
    /\ run[p].pc = "done"
    /\ run[p].response # None
    /\ TotalMatches(run[p].response.Reservations) = 1
    /\ run[p].error = KeyError("PublicIpAddress")
    /\ dir_exists

\* the (id, address) pairs of the instances of the model
Pairs == {<<ID_1, HOST_A_B>>, <<ID_1_A, HOST_B>>, <<ID_1, HOST_B>>,
          <<ID_1_A, HOST_A_B>>}

\* C8: over runs executed one after another a trust-store file, once it
\* exists, is never changed by a later step, whatever the console output
\* has become; and a file exists for an (id, address) pair only if a run
\* for that very pair has extracted keys.
C8_WriteOnce ==
  [][/\ \A f \in DOMAIN fs : f \in DOMAIN fs' /\ fs'[f] = fs[f]
     /\ \A pair \in Pairs :
          path_exists(fs', get_known_hosts_name(pair[1], pair[2]))
            => pair \in extracted']_vars

(***************************************************************************)
(* Properties of concurrent invocations.                                   *)
(***************************************************************************)
\* an invocation has opened path and not yet written its data
Writing(path) ==
  \E p \in Procs : run[p].pc = "writing" /\ run[p].file_name = path

\* the complete trust records of the instance the invocations resolve
CompleteRecords ==
  {known_hosts_data(
     get_ssh_host_keys_from_console_output(o, ID_1).value, HOST_A_B) :
       o \in ConcOutputs}

\* C9: with the existence check, the open that truncates and the write as
\* separate steps, a trust-store file that exists need not hold a complete
\* key set: it is empty only while an invocation that missed the cache is
\* between its open and its write, and it holds anything but one complete
\* record only then or after two invocations opened the same path; and an
\* invocation whose cache check found the file goes on to ssh without
\* fetching or writing, whatever the file holds.
C9_IncompleteFile ==
  /\ \A f \in DOMAIN fs :
       /\ fs[f] = <<>> => Writing(f)
       /\ fs[f] \notin CompleteRecords =>
            Writing(f) \/ Cardinality(openers[f]) >= 2
  /\ \A p \in Procs :
       Traced(run[p], "Using cached file") =>
         /\ path_exists(fs, run[p].file_name)
         /\ ~run[p].fetched
         /\ ~run[p].wrote
         /\ run[p].pc \in {"launch", "wait", "exit", "done"}

\* C9 witness: both invocations missed the cache and opened the same path,
\* and one of them, in a later run, took the cache-hit path and started ssh
\* on the file while the other had truncated it and not yet written
C9_Witness ==
  \E f \in DOMAIN fs, p \in Procs :
    /\ openers[f] = Procs
    /\ fs[f] = <<>>
    /\ Writing(f)
    /\ run[p].file_name = f
    /\ Traced(run[p], "Using cached file")
    /\ child[p].state = "running"

=============================================================================
